---- MODULE Spec2Model ----
(***************************************************************************)
(* A model of the llm_mcq_generation repository:                           *)
(*   - src/mcq_generator.py: module start-up, MCQGenerator, run_experiment, *)
(*     extract_question, save_results_to_file         (specification SpecMcq) *)
(*   - src/llm_mcq/processors/text_processor.py      (specification SpecText) *)
(*   - src/llm_mcq/processors/pdf_processor.py        (specification SpecPdf) *)
(*                                                                         *)
(* A Python str is a sequence of one-character strings.  A Python value     *)
(* that may be None, a str or a list is a tagged record (None, Str, List).  *)
(***************************************************************************)
EXTENDS Integers, Sequences, FiniteSets, TLC

VARIABLES
    \* ---- src/mcq_generator.py
    pc,                    \* position in mcq_generator.py
    deepinfra_api_key,     \* os.getenv("DEEPINFRA_API_KEY")
    deepinfra_base_url,    \* os.getenv("DEEPINFRA_BASE_URL")
    openai,                \* TRUE once the OpenAI client is constructed
    calls,                 \* completion requests issued so far
    failed,                \* the requests (by number) that raised
    entry,                 \* the function invoked on the loaded module
    selected_variants,     \* argument of generate_mcq_variants / run_experiment
    n_samples,             \* argument of evaluate_with_self_consistency
    arg,                   \* str argument of extract_question / reorder_options
    base_mcq_with_answer,  \* run_experiment local
    base_mcq_question,     \* run_experiment local, base_mcq of generate_mcq_variants
    mcqa_variants,         \* the dict `variants`, in insertion order
    varying_options,       \* the list built by generate_mcq_with_varying_options
    evaluations,           \* the dict `evaluations`, in insertion order
    ev_i,                  \* index of the evaluation target being evaluated
    sc_i,                  \* iterations done of the self-consistency loop
    cot,                   \* the "CoT" value of the entry being built
    sc_results,            \* the list `results` of evaluate_with_self_consistency
    file,                  \* the result file on disk
    raised,                \* the exception that ended the run, or NoException
    ret,                   \* the value returned by the invoked function
    first_ret,             \* what the first of two successive calls returned
    \* ---- src/llm_mcq/processors/text_processor.py
    tp_pc, documents, tp_i, tp_pass, tp_prev,
    \* ---- src/llm_mcq/processors/pdf_processor.py
    pdf_pc, pdf_paths, pdf_documents, pdf_i, page_number

mcqVars == <<pc, deepinfra_api_key, deepinfra_base_url, openai, calls, failed,
             entry, selected_variants, n_samples, arg, base_mcq_with_answer,
             base_mcq_question, mcqa_variants, varying_options, evaluations,
             ev_i, sc_i, cot, sc_results, file, raised, ret, first_ret>>
textVars == <<tp_pc, documents, tp_i, tp_pass, tp_prev>>
pdfVars == <<pdf_pc, pdf_paths, pdf_documents, pdf_i, page_number>>
vars == <<mcqVars, textVars, pdfVars>>

(***************************************************************************)
(* Bounds of the model.                                                    *)
(***************************************************************************)
MaxTextLen == 3     \* length of a document text given to clean_text
MaxDocs == 2        \* documents given to preprocess_documents
MaxPasses == 2      \* runs of preprocess_documents over the same list
MaxPdfs == 2        \* PDF files under base_path
MaxPages == 3       \* pages of one PDF
MaxFailures == 2    \* completion requests that fail in one run
MaxSamples == 3     \* n_samples of a direct evaluate_with_self_consistency call
MaxStrLen == 3      \* length of a str given to extract_question
MaxLines == 4       \* lines of a str given to reorder_options

(***************************************************************************)
(* Python values.                                                          *)
(***************************************************************************)
None == [t |-> "None"]
Str(s) == [t |-> "str", v |-> s]
List(xs) == [t |-> "list", items |-> xs]
Dict(d) == [t |-> "dict", entries |-> d]

RECURSIVE SeqsUpTo(_, _)
\* All sequences over S of length at most n.
SeqsUpTo(S, n) ==
    IF n = 0 THEN {<<>>}
    ELSE LET shorter == SeqsUpTo(S, n - 1)
         IN  shorter \cup {Append(s, c) : s \in shorter, c \in S}

(***************************************************************************)
(* str methods (Python semantics, on sequences of characters).             *)
(***************************************************************************)
WhitespaceChars == {" ", "\t", "\n"}               \* what \s and strip() match
WordChars == {"w", "Q", "a", "b", "c", "d", "x"}    \* letters: what \w matches
PunctuationKept == {".", ",", "!", "?"}

\* s.split("\n"): the lines of s; always at least one line.
SplitLines(s) ==
    LET F[i \in 0..Len(s)] ==
            IF i = 0 THEN <<<<>>>>
            ELSE LET prev == F[i - 1]
                     n == Len(prev)
                 IN  IF s[i] = "\n" THEN Append(prev, <<>>)
                     ELSE [prev EXCEPT ![n] = Append(prev[n], s[i])]
    IN  F[Len(s)]

\* "\n".join(lines)
JoinLines(lines) ==
    LET F[i \in 0..Len(lines)] ==
            IF i = 0 THEN <<>>
            ELSE IF i = 1 THEN lines[1]
            ELSE F[i - 1] \o <<"\n">> \o lines[i]
    IN  F[Len(lines)]

\* s.strip(): s without its leading and trailing whitespace.
Strip(s) ==
    LET keep == {i \in 1..Len(s) : s[i] \notin WhitespaceChars}
    IN  IF keep = {} THEN <<>>
        ELSE LET lo == CHOOSE i \in keep : \A j \in keep : i <= j
                 hi == CHOOSE i \in keep : \A j \in keep : j <= i
             IN  SubSeq(s, lo, hi)

\* s.startswith(prefix)
StartsWith(s, prefix) ==
    /\ Len(s) >= Len(prefix)
    /\ SubSeq(s, 1, Len(prefix)) = prefix

(***************************************************************************)
(* src/llm_mcq/processors/text_processor.py                                *)
(***************************************************************************)
\* re.sub(r"\s+", " ", text): every maximal run of whitespace becomes one space.
CollapseWhitespace(text) ==
    LET F[i \in 0..Len(text)] ==
            IF i = 0 THEN <<>>
            ELSE IF text[i] \in WhitespaceChars
                 THEN IF i > 1 /\ text[i - 1] \in WhitespaceChars
                      THEN F[i - 1]
                      ELSE Append(F[i - 1], " ")
                 ELSE Append(F[i - 1], text[i])
    IN  F[Len(text)]

\* re.sub(r"[^\w\s.,!?]", "", text): every other character is removed.
IsKept(c) == c \in WordChars \cup WhitespaceChars \cup PunctuationKept
RemoveDisallowed(text) == SelectSeq(text, IsKept)

\* TextPreprocessor.clean_text
clean_text(text) == RemoveDisallowed(CollapseWhitespace(text))

\* The characters the checked document texts are made of: a word character,
\* a space, another whitespace character, a kept punctuation mark and a
\* character clean_text removes.
TextAlphabet == {"w", " ", "\t", ".", "-"}
Texts == SeqsUpTo(TextAlphabet, MaxTextLen)

\* for doc in documents: doc["text"] = TextPreprocessor.clean_text(doc["text"])
CleanDocument ==
    /\ tp_pc = "for_doc"
    /\ tp_i <= Len(documents)
    /\ documents' = [documents EXCEPT ![tp_i].text = clean_text(@)]
    /\ tp_i' = tp_i + 1
    /\ UNCHANGED <<tp_pc, tp_pass, tp_prev>>
    /\ UNCHANGED <<mcqVars, pdfVars>>

\* return documents
ReturnDocuments ==
    /\ tp_pc = "for_doc"
    /\ tp_i > Len(documents)
    /\ tp_pc' = "returned"
    /\ UNCHANGED <<documents, tp_i, tp_pass, tp_prev>>
    /\ UNCHANGED <<mcqVars, pdfVars>>

\* The caller runs preprocess_documents again on the list it got back.
PreprocessAgain ==
    /\ tp_pc = "returned"
    /\ tp_pass < MaxPasses
    /\ tp_prev' = documents
    /\ tp_pass' = tp_pass + 1
    /\ tp_i' = 1
    /\ tp_pc' = "for_doc"
    /\ UNCHANGED documents
    /\ UNCHANGED <<mcqVars, pdfVars>>

NextText == CleanDocument \/ ReturnDocuments \/ PreprocessAgain

(***************************************************************************)
(* src/llm_mcq/processors/pdf_processor.py                                 *)
(***************************************************************************)
\* A PDF under base_path: its number of pages, whether fitz.open succeeds on
\* it, and the page whose get_text raises (0: none does).
PdfFiles ==
    {[pages |-> n, opens |-> FALSE, bad_page |-> 0] : n \in 0..MaxPages}
    \cup {[pages |-> n, opens |-> TRUE, bad_page |-> k] :
              n \in 0..MaxPages, k \in 0..MaxPages}

\* with fitz.open(pdf_path) as doc: opens the next file, or raises and the
\* except clause prints the error.
OpenPdf ==
    /\ pdf_pc = "for_pdf"
    /\ pdf_i <= Len(pdf_paths)
    /\ \/ /\ ~pdf_paths[pdf_i].opens
          /\ pdf_i' = pdf_i + 1
          /\ UNCHANGED <<pdf_pc, page_number>>
       \/ /\ pdf_paths[pdf_i].opens
          /\ pdf_pc' = "for_page"
          /\ page_number' = 0
          /\ UNCHANGED pdf_i
    /\ UNCHANGED <<pdf_paths, pdf_documents>>
    /\ UNCHANGED <<mcqVars, textVars>>

\* for page_number in range(len(doc)): one page is read and its record is
\* appended, or get_text raises and the except clause ends this file.
ReadPage ==
    /\ pdf_pc = "for_page"
    /\ page_number < pdf_paths[pdf_i].pages
    /\ \/ /\ pdf_paths[pdf_i].bad_page = page_number + 1
          /\ pdf_pc' = "for_pdf"
          /\ pdf_i' = pdf_i + 1
          /\ UNCHANGED <<pdf_documents, page_number>>
       \/ /\ pdf_paths[pdf_i].bad_page # page_number + 1
          /\ pdf_documents' = Append(pdf_documents,
                 [file |-> pdf_i, page |-> page_number + 1,
                  text |-> <<pdf_i, page_number + 1>>])
          /\ page_number' = page_number + 1
          /\ UNCHANGED <<pdf_pc, pdf_i>>
    /\ UNCHANGED pdf_paths
    /\ UNCHANGED <<mcqVars, textVars>>

\* The page loop ends and the with block closes the file.
ClosePdf ==
    /\ pdf_pc = "for_page"
    /\ page_number >= pdf_paths[pdf_i].pages
    /\ pdf_pc' = "for_pdf"
    /\ pdf_i' = pdf_i + 1
    /\ UNCHANGED <<pdf_paths, pdf_documents, page_number>>
    /\ UNCHANGED <<mcqVars, textVars>>

\* return documents
ReturnExtracted ==
    /\ pdf_pc = "for_pdf"
    /\ pdf_i > Len(pdf_paths)
    /\ pdf_pc' = "returned"
    /\ UNCHANGED <<pdf_paths, pdf_documents, pdf_i, page_number>>
    /\ UNCHANGED <<mcqVars, textVars>>

NextPdf == OpenPdf \/ ReadPage \/ ClosePdf \/ ReturnExtracted

(***************************************************************************)
(* src/mcq_generator.py: values                                            *)
(***************************************************************************)
NoException == "none"

\* A dict is the sequence of its items, in insertion order.
DictKeys(d) == {d[i].key : i \in DOMAIN d}
DictSet(d, k, val) ==
    IF k \in DictKeys(d)
    THEN [i \in DOMAIN d |->
             IF d[i].key = k THEN [key |-> k, value |-> val] ELSE d[i]]
    ELSE Append(d, [key |-> k, value |-> val])

\* The marker "**correct answer:**" is written as the one token "m", and the
\* same marker in any other casing ("**Correct Answer:**") as the token "M".
AnswerMarker == <<"m">>

\* c.lower()
LowerChar(c) ==
    CASE c = "M" -> "m"
      [] c = "Q" -> "q"
      [] OTHER -> c
\* s.lower()
Lower(s) == [i \in DOMAIN s |-> LowerChar(s[i])]

IsAnswerLine(line) == StartsWith(Lower(line), AnswerMarker)

\* extract_question, on a str: the lines that do not start with the marker,
\* joined and stripped.
extract_question(mcq_with_answer) ==
    LET lines == SplitLines(mcq_with_answer)
        NotAnswer(line) == ~IsAnswerLine(line)
        cleaned_lines == SelectSeq(lines, NotAnswer)
    IN  Strip(JoinLines(cleaned_lines))

OptionMarkers == {<<"a", ")">>, <<"b", ")">>, <<"c", ")">>, <<"d", ")">>}

\* A filter that looks at the letter only.
IsOptionLineNoParen(line) ==
    \E m \in OptionMarkers : StartsWith(line, <<m[1]>>)
\* line.startswith(("a)", "b)", "c)", "d)"))
IsOptionLine(line) == \E m \in OptionMarkers : StartsWith(line, m)

\* options = [line for line in lines if line.startswith(...)]
OptionLines(base_mcq) == SelectSeq(SplitLines(base_mcq), IsOptionLine)

\* reorder_options with random.shuffle leaving the options in the order p.
ReorderedBy(base_mcq, p) ==
    LET options == OptionLines(base_mcq)
    IN  JoinLines([i \in DOMAIN options |-> options[p[i]]])

\* The orders random.shuffle can leave n options in.
Shuffles(n) == Permutations(1..n)

Kinds == {"Re-ordered Options", "Varying Options", "None of the Above",
          "True or False"}
UnknownKind == "Fill in the Blank"
\* selected_variants=None, or a list of names
Selections == {None} \cup {List(S) : S \in SUBSET (Kinds \cup {UnknownKind})}

\* not selected_variants
NotSelected(sel) == sel = None \/ sel.items = {}
\* selected_variants after lines 107-108: all four names when the argument
\* is None or empty, the argument otherwise
EffectiveSelection(sel) == IF NotSelected(sel) THEN Kinds ELSE sel.items

NumOptions == <<2, 3, 6>>     \* num_options=[2, 3, 6]
DefaultSamples == 5           \* n_samples=5

\* What the completion service answers to request k: a text of its own, an
\* MCQ with surrounding whitespace, one option and an answer line.
RawCompletion(k) == <<" ", "Q", ToString(k), "\n", "a", ")", "\n", "M", "\n">>

\* _query_openai: the stripped content, or None when the request raised.
QueryOpenai(ok) == IF ok THEN Str(Strip(RawCompletion(calls + 1))) ELSE None

\* The request _query_openai issues; it succeeds (ok) or raises.
Request(ok) ==
    /\ ok \/ Cardinality(failed) < MaxFailures
    /\ calls' = calls + 1
    /\ failed' = IF ok THEN failed ELSE failed \cup {calls + 1}

\* The values os.getenv can return: None, "" or the configured value.
EnvValues == {None, Str(<<>>), Str(<<"k", "e", "y", "0", "1">>)}
\* not value
Falsy(value) == value = None \/ value = Str(<<>>)

envVars == <<deepinfra_api_key, deepinfra_base_url>>
argVars == <<entry, selected_variants, n_samples, arg>>
callVars == <<calls, failed>>
genVars == <<mcqa_variants, varying_options>>
evalVars == <<evaluations, ev_i, sc_i, cot, sc_results>>
endVars == <<file, raised, ret, first_ret>>

baseVars == <<base_mcq_with_answer, base_mcq_question>>

(***************************************************************************)
(* src/mcq_generator.py: module start-up (lines 17-32)                     *)
(***************************************************************************)
\* logging.debug(f"API Key: {deepinfra_api_key[:4]}..."): None[:4] raises.
LogApiKey ==
    /\ pc = "log_api_key"
    /\ IF deepinfra_api_key = None
       THEN /\ raised' = "TypeError"
            /\ pc' = "raised"
       ELSE /\ pc' = "check_api_key"
            /\ UNCHANGED raised
    /\ UNCHANGED <<envVars, openai, callVars, argVars, baseVars, genVars,
                   evalVars, file, ret, first_ret>>
    /\ UNCHANGED <<textVars, pdfVars>>

\* if not deepinfra_api_key: raise ValueError(...)
CheckApiKey ==
    /\ pc = "check_api_key"
    /\ IF Falsy(deepinfra_api_key)
       THEN /\ raised' = "ValueError"
            /\ pc' = "raised"
       ELSE /\ pc' = "check_base_url"
            /\ UNCHANGED raised
    /\ UNCHANGED <<envVars, openai, callVars, argVars, baseVars, genVars,
                   evalVars, file, ret, first_ret>>
    /\ UNCHANGED <<textVars, pdfVars>>

\* A start-up without the second check.
CheckBaseUrlSkipped ==
    /\ pc = "check_base_url"
    /\ pc' = "construct_client"
    /\ UNCHANGED <<envVars, openai, callVars, argVars, baseVars, genVars,
                   evalVars, endVars>>
    /\ UNCHANGED <<textVars, pdfVars>>

\* if not deepinfra_base_url: raise ValueError(...)
CheckBaseUrl ==
    /\ pc = "check_base_url"
    /\ IF Falsy(deepinfra_base_url)
       THEN /\ raised' = "ValueError"
            /\ pc' = "raised"
       ELSE /\ pc' = "construct_client"
            /\ UNCHANGED raised
    /\ UNCHANGED <<envVars, openai, callVars, argVars, baseVars, genVars,
                   evalVars, file, ret, first_ret>>
    /\ UNCHANGED <<textVars, pdfVars>>

\* openai = OpenAI(api_key=deepinfra_api_key, base_url=deepinfra_base_url)
ConstructClient ==
    /\ pc = "construct_client"
    /\ openai' = TRUE
    /\ pc' = "loaded"
    /\ UNCHANGED <<envVars, callVars, argVars, baseVars, genVars, evalVars,
                   endVars>>
    /\ UNCHANGED <<textVars, pdfVars>>

(***************************************************************************)
(* The functions of the loaded module, each called once.                   *)
(***************************************************************************)
\* The question a direct call of generate_mcq_variants is given.
SampleQuestion == extract_question(Strip(RawCompletion(0)))

\* The strs extract_question is called on: the marker in both casings, two
\* whitespace characters and another character.
QuestionAlphabet == {"m", "M", " ", "\n", "x"}
QuestionStrings == SeqsUpTo(QuestionAlphabet, MaxStrLen)

\* The strs reorder_options is called on: a question stem or none, then
\* lines among the four options, an indented option and a line that starts
\* with an option's letter only.
StemLine == <<"Q", "?">>
SampleLines == {<<"a", ")">>, <<"b", ")", "x">>, <<"c", ")">>, <<"d", ")">>,
                <<" ", "a", ")">>, <<"a", "x">>}
McqStrings ==
    {JoinLines(stem \o ls) :
        stem \in {<<>>, <<StemLine>>}, ls \in SeqsUpTo(SampleLines, MaxLines)}

\* run_experiment(text, max_tokens, selected_variants) (line 192; line 262
\* calls it as soon as the module is loaded)
CallRunExperiment ==
    /\ pc = "loaded"
    /\ \E sel \in Selections : selected_variants' = sel
    /\ entry' = "run_experiment"
    /\ n_samples' = DefaultSamples
    /\ pc' = "generate_base"
    /\ UNCHANGED <<envVars, openai, callVars, arg, baseVars, genVars,
                   evalVars, endVars>>
    /\ UNCHANGED <<textVars, pdfVars>>

\* MCQGenerator().generate_mcq_variants(text, base_mcq, selected_variants)
CallGenerateMcqVariants ==
    /\ pc = "loaded"
    /\ \E sel \in Selections : selected_variants' = sel
    /\ entry' = "generate_mcq_variants"
    /\ base_mcq_question' = Str(SampleQuestion)
    /\ pc' = "variants_start"
    /\ UNCHANGED <<envVars, openai, callVars, n_samples, arg,
                   base_mcq_with_answer, genVars, evalVars, endVars>>
    /\ UNCHANGED <<textVars, pdfVars>>

\* MCQGenerator().evaluate_with_self_consistency(text, question, n_samples)
CallSelfConsistency ==
    /\ pc = "loaded"
    /\ \E n \in 0..MaxSamples : n_samples' = n
    /\ entry' = "evaluate_with_self_consistency"
    /\ sc_results' = <<>>
    /\ sc_i' = 0
    /\ pc' = "self_consistency"
    /\ UNCHANGED <<envVars, openai, callVars, selected_variants, arg, baseVars,
                   genVars, evaluations, ev_i, cot, endVars>>
    /\ UNCHANGED <<textVars, pdfVars>>

\* extract_question(mcq_with_answer)
CallExtractQuestion ==
    /\ pc = "loaded"
    /\ \E s \in QuestionStrings : arg' = s
    /\ entry' = "extract_question"
    /\ pc' = "extract"
    /\ UNCHANGED <<envVars, openai, callVars, selected_variants, n_samples,
                   baseVars, genVars, evalVars, endVars>>
    /\ UNCHANGED <<textVars, pdfVars>>

\* MCQGenerator().reorder_options(base_mcq)
CallReorderOptions ==
    /\ pc = "loaded"
    /\ \E s \in McqStrings : arg' = s
    /\ entry' = "reorder_options"
    /\ pc' = "reorder"
    /\ UNCHANGED <<envVars, openai, callVars, selected_variants, n_samples,
                   baseVars, genVars, evalVars, endVars>>
    /\ UNCHANGED <<textVars, pdfVars>>

\* extract_question returns.
ExtractQuestion ==
    /\ pc = "extract"
    /\ ret' = Str(extract_question(arg))
    /\ pc' = "done"
    /\ UNCHANGED <<envVars, openai, callVars, argVars, baseVars, genVars,
                   evalVars, file, raised, first_ret>>
    /\ UNCHANGED <<textVars, pdfVars>>

\* extract_question is called again, on what it returned.
ExtractQuestionAgain ==
    /\ pc = "done"
    /\ entry = "extract_question"
    /\ first_ret = None
    /\ first_ret' = ret
    /\ ret' = Str(extract_question(ret.v))
    /\ UNCHANGED <<pc, envVars, openai, callVars, argVars, baseVars, genVars,
                   evalVars, file, raised>>
    /\ UNCHANGED <<textVars, pdfVars>>

\* reorder_options returns, random.shuffle having left some order.
ReorderOptions ==
    /\ pc = "reorder"
    /\ \E p \in Shuffles(Len(OptionLines(arg))) :
          ret' = Str(ReorderedBy(arg, p))
    /\ pc' = "done"
    /\ UNCHANGED <<envVars, openai, callVars, argVars, baseVars, genVars,
                   evalVars, file, raised, first_ret>>
    /\ UNCHANGED <<textVars, pdfVars>>

(***************************************************************************)
(* run_experiment (lines 192-219)                                          *)
(***************************************************************************)
\* base_mcq_with_answer = mcq_generator.generate_mcq_with_answer(text, ...)
GenerateBase ==
    /\ pc = "generate_base"
    /\ \E ok \in BOOLEAN :
          /\ Request(ok)
          /\ base_mcq_with_answer' = QueryOpenai(ok)
    /\ pc' = "extract_base"
    /\ UNCHANGED <<envVars, openai, argVars, base_mcq_question, genVars,
                   evalVars, endVars>>
    /\ UNCHANGED <<textVars, pdfVars>>

\* base_mcq_question = extract_question(base_mcq_with_answer): None has no
\* split, so the call raises AttributeError.
ExtractBase ==
    /\ pc = "extract_base"
    /\ IF base_mcq_with_answer = None
       THEN /\ raised' = "AttributeError"
            /\ pc' = "raised"
            /\ UNCHANGED base_mcq_question
       ELSE /\ base_mcq_question' = Str(extract_question(base_mcq_with_answer.v))
            /\ pc' = "variants_start"
            /\ UNCHANGED raised
    /\ UNCHANGED <<envVars, openai, callVars, argVars, base_mcq_with_answer,
                   genVars, evalVars, file, ret, first_ret>>
    /\ UNCHANGED <<textVars, pdfVars>>

(***************************************************************************)
(* MCQGenerator.generate_mcq_variants (lines 106-120)                      *)
(***************************************************************************)
\* variants = {} (the names are looked up in EffectiveSelection from here on)
VariantsStart ==
    /\ pc = "variants_start"
    /\ mcqa_variants' = <<>>
    /\ pc' = "variant_reorder"
    /\ UNCHANGED <<envVars, openai, callVars, argVars, baseVars,
                   varying_options, evalVars, endVars>>
    /\ UNCHANGED <<textVars, pdfVars>>

\* if "Re-ordered Options" in selected_variants: ... = self.reorder_options(base_mcq)
VariantReorder ==
    /\ pc = "variant_reorder"
    /\ IF "Re-ordered Options" \in EffectiveSelection(selected_variants)
       THEN \E p \in Shuffles(Len(OptionLines(base_mcq_question.v))) :
               mcqa_variants' = DictSet(mcqa_variants, "Re-ordered Options",
                                   Str(ReorderedBy(base_mcq_question.v, p)))
       ELSE UNCHANGED mcqa_variants
    /\ pc' = "variant_varying"
    /\ UNCHANGED <<envVars, openai, callVars, argVars, baseVars,
                   varying_options, evalVars, endVars>>
    /\ UNCHANGED <<textVars, pdfVars>>

\* if "Varying Options" in selected_variants: ...; varying_options = []
VariantVarying ==
    /\ pc = "variant_varying"
    /\ IF "Varying Options" \in EffectiveSelection(selected_variants)
       THEN /\ varying_options' = <<>>
            /\ pc' = "varying_loop"
       ELSE /\ pc' = "variant_none_of_the_above"
            /\ UNCHANGED varying_options
    /\ UNCHANGED <<envVars, openai, callVars, argVars, baseVars, mcqa_variants,
                   evalVars, endVars>>
    /\ UNCHANGED <<textVars, pdfVars>>

\* for n in num_options: varying_options.append(self._query_openai(prompt))
VaryingOption ==
    /\ pc = "varying_loop"
    /\ Len(varying_options) < Len(NumOptions)
    /\ \E ok \in BOOLEAN :
          /\ Request(ok)
          /\ varying_options' = Append(varying_options, QueryOpenai(ok))
    /\ UNCHANGED <<pc, envVars, openai, argVars, baseVars, mcqa_variants,
                   evalVars, endVars>>
    /\ UNCHANGED <<textVars, pdfVars>>

\* return varying_options; variants["Varying Options"] = ...
VaryingReturn ==
    /\ pc = "varying_loop"
    /\ Len(varying_options) >= Len(NumOptions)
    /\ mcqa_variants' = DictSet(mcqa_variants, "Varying Options",
                                List(varying_options))
    /\ pc' = "variant_none_of_the_above"
    /\ UNCHANGED <<envVars, openai, callVars, argVars, baseVars,
                   varying_options, evalVars, endVars>>
    /\ UNCHANGED <<textVars, pdfVars>>

\* if "None of the Above" in selected_variants: ... = self.replace_with_none_of_the_above(...)
VariantNoneOfTheAbove ==
    /\ pc = "variant_none_of_the_above"
    /\ IF "None of the Above" \in EffectiveSelection(selected_variants)
       THEN \E ok \in BOOLEAN :
               /\ Request(ok)
               /\ mcqa_variants' = DictSet(mcqa_variants, "None of the Above",
                                           QueryOpenai(ok))
       ELSE UNCHANGED <<callVars, mcqa_variants>>
    /\ pc' = "variant_true_false"
    /\ UNCHANGED <<envVars, openai, argVars, baseVars, varying_options,
                   evalVars, endVars>>
    /\ UNCHANGED <<textVars, pdfVars>>

\* if "True or False" in selected_variants: ... = self.generate_true_false_questions(...)
VariantTrueFalse ==
    /\ pc = "variant_true_false"
    /\ IF "True or False" \in EffectiveSelection(selected_variants)
       THEN \E ok \in BOOLEAN :
               /\ Request(ok)
               /\ mcqa_variants' = DictSet(mcqa_variants, "True or False",
                                           QueryOpenai(ok))
       ELSE UNCHANGED <<callVars, mcqa_variants>>
    /\ pc' = "variants_return"
    /\ UNCHANGED <<envVars, openai, argVars, baseVars, varying_options,
                   evalVars, endVars>>
    /\ UNCHANGED <<textVars, pdfVars>>

\* return variants: to the caller of generate_mcq_variants, or to line 197
\* of run_experiment, which goes on to build `evaluations`.
VariantsReturn ==
    /\ pc = "variants_return"
    /\ IF entry = "generate_mcq_variants"
       THEN /\ ret' = Dict(mcqa_variants)
            /\ pc' = "done"
            /\ UNCHANGED <<evaluations, ev_i>>
       ELSE /\ evaluations' = <<>>
            /\ ev_i' = 1
            /\ pc' = "evaluate_cot"
            /\ UNCHANGED ret
    /\ UNCHANGED <<envVars, openai, callVars, argVars, baseVars, genVars, sc_i,
                   cot, sc_results, file, raised, first_ret>>
    /\ UNCHANGED <<textVars, pdfVars>>

(***************************************************************************)
(* Evaluation (lines 199-209, 156-168)                                     *)
(***************************************************************************)
\* Targets that leave out the variants whose generation failed.
EvaluationTargetsGenerated(question, variants) ==
    LET Generated(item) == item.value # None
    IN  <<[key |-> "Base MCQ", value |-> question]>>
            \o SelectSeq(variants, Generated)

\* What is evaluated, in order: the base question under "Base MCQ", then
\* every item of mcqa_variants.items().
EvaluationTargets(question, variants) ==
    <<[key |-> "Base MCQ", value |-> question]>> \o variants

\* results.append(r), skipping a failed sample.
AppendSampleIfAny(results, r) ==
    IF r = None THEN results ELSE Append(results, r)

\* results.append(self._query_openai(prompt, max_tokens=1000))
AppendSample(results, r) == Append(results, r)

\* "CoT": mcq_generator.evaluate_with_cot(text, ...), and the start of
\* evaluate_with_self_consistency: results = []
EvaluateCot ==
    /\ pc = "evaluate_cot"
    /\ ev_i <= Len(EvaluationTargets(base_mcq_question, mcqa_variants))
    /\ \E ok \in BOOLEAN :
          /\ Request(ok)
          /\ cot' = QueryOpenai(ok)
    /\ sc_results' = <<>>
    /\ sc_i' = 0
    /\ pc' = "self_consistency"
    /\ UNCHANGED <<envVars, openai, argVars, baseVars, genVars, evaluations,
                   ev_i, endVars>>
    /\ UNCHANGED <<textVars, pdfVars>>

\* for _ in range(n_samples): one request, its outcome appended
SelfConsistencySample ==
    /\ pc = "self_consistency"
    /\ sc_i < n_samples
    /\ \E ok \in BOOLEAN :
          /\ Request(ok)
          /\ sc_results' = AppendSample(sc_results, QueryOpenai(ok))
    /\ sc_i' = sc_i + 1
    /\ UNCHANGED <<pc, envVars, openai, argVars, baseVars, genVars,
                   evaluations, ev_i, cot, endVars>>
    /\ UNCHANGED <<textVars, pdfVars>>

\* return results: to the caller of evaluate_with_self_consistency, or into
\* evaluations[name] = {"CoT": ..., "Self Consistency": ...}
SelfConsistencyReturn ==
    /\ pc = "self_consistency"
    /\ sc_i >= n_samples
    /\ IF entry = "evaluate_with_self_consistency"
       THEN /\ ret' = List(sc_results)
            /\ pc' = "done"
            /\ UNCHANGED <<evaluations, ev_i>>
       ELSE /\ evaluations' = DictSet(evaluations,
                 EvaluationTargets(base_mcq_question, mcqa_variants)[ev_i].key,
                 [CoT |-> cot, SelfConsistency |-> List(sc_results)])
            /\ ev_i' = ev_i + 1
            /\ pc' = "evaluate_cot"
            /\ UNCHANGED ret
    /\ UNCHANGED <<envVars, openai, callVars, argVars, baseVars, genVars, sc_i,
                   cot, sc_results, file, raised, first_ret>>
    /\ UNCHANGED <<textVars, pdfVars>>

\* results = {"Base MCQ with Answer": ..., "Variants": ..., "Evaluations": ...}
Results ==
    <<[key |-> "Base MCQ with Answer", value |-> base_mcq_with_answer],
      [key |-> "Variants", value |-> Dict(mcqa_variants)],
      [key |-> "Evaluations", value |-> Dict(evaluations)]>>

\* The loop over mcqa_variants.items() ends; results and filename are built.
AssembleResults ==
    /\ pc = "evaluate_cot"
    /\ ev_i > Len(EvaluationTargets(base_mcq_question, mcqa_variants))
    /\ pc' = "save_open"
    /\ UNCHANGED <<envVars, openai, callVars, argVars, baseVars, genVars,
                   evalVars, endVars>>
    /\ UNCHANGED <<textVars, pdfVars>>

(***************************************************************************)
(* save_results_to_file (lines 187-190)                                    *)
(***************************************************************************)
\* with open(filename, "w") as f: the file is created empty, or open raises.
SaveOpen ==
    /\ pc = "save_open"
    /\ \E ok \in BOOLEAN :
          IF ok
          THEN /\ file' = [exists |-> TRUE, content |-> <<>>]
               /\ pc' = "save_dump"
               /\ UNCHANGED raised
          ELSE /\ raised' = "OSError"
               /\ pc' = "raised"
               /\ UNCHANGED file
    /\ UNCHANGED <<envVars, openai, callVars, argVars, baseVars, genVars,
                   evalVars, ret, first_ret>>
    /\ UNCHANGED <<textVars, pdfVars>>

\* json.dump(results, f, indent=4): the next item of results is written, or
\* the write raises and the with block closes the file as it is.
SaveDump ==
    /\ pc = "save_dump"
    /\ Len(file.content) < Len(Results)
    /\ \E ok \in BOOLEAN :
          IF ok
          THEN /\ file' = [file EXCEPT !.content =
                              Append(@, Results[Len(file.content) + 1])]
               /\ UNCHANGED <<pc, raised>>
          ELSE /\ raised' = "OSError"
               /\ pc' = "raised"
               /\ UNCHANGED file
    /\ UNCHANGED <<envVars, openai, callVars, argVars, baseVars, genVars,
                   evalVars, ret, first_ret>>
    /\ UNCHANGED <<textVars, pdfVars>>

\* The file is closed; run_experiment returns results.
SaveReturn ==
    /\ pc = "save_dump"
    /\ Len(file.content) >= Len(Results)
    /\ ret' = Dict(Results)
    /\ pc' = "done"
    /\ UNCHANGED <<envVars, openai, callVars, argVars, baseVars, genVars,
                   evalVars, file, raised, first_ret>>
    /\ UNCHANGED <<textVars, pdfVars>>

NextMcq ==
    \/ LogApiKey \/ CheckApiKey \/ CheckBaseUrl \/ ConstructClient
    \/ CallRunExperiment \/ CallGenerateMcqVariants \/ CallSelfConsistency
    \/ CallExtractQuestion \/ CallReorderOptions
    \/ ExtractQuestion \/ ExtractQuestionAgain \/ ReorderOptions
    \/ GenerateBase \/ ExtractBase
    \/ VariantsStart \/ VariantReorder \/ VariantVarying \/ VaryingOption
    \/ VaryingReturn \/ VariantNoneOfTheAbove \/ VariantTrueFalse
    \/ VariantsReturn
    \/ EvaluateCot \/ SelfConsistencySample \/ SelfConsistencyReturn
    \/ AssembleResults \/ SaveOpen \/ SaveDump \/ SaveReturn

(***************************************************************************)
(* Specifications: one per module of the repository.                       *)
(***************************************************************************)
\* The variables of each module before anything of it has run, at `position`.
McqStart(position) ==
    /\ pc = position
    /\ openai = FALSE /\ calls = 0 /\ failed = {} /\ entry = "none"
    /\ selected_variants = None /\ n_samples = 0 /\ arg = <<>>
    /\ base_mcq_with_answer = None /\ base_mcq_question = None
    /\ mcqa_variants = <<>> /\ varying_options = <<>> /\ evaluations = <<>>
    /\ ev_i = 0 /\ sc_i = 0 /\ cot = None /\ sc_results = <<>>
    /\ file = [exists |-> FALSE, content |-> <<>>]
    /\ raised = NoException /\ ret = None /\ first_ret = None
TextStart(position) ==
    /\ tp_pc = position /\ tp_i = 1 /\ tp_pass = 1 /\ tp_prev = <<>>
PdfStart(position) ==
    /\ pdf_pc = position /\ pdf_documents = <<>> /\ pdf_i = 1
    /\ page_number = 0

\* mcq_generator.py is imported: lines 17-23 have read the environment.
InitMcq ==
    /\ McqStart("log_api_key")
    /\ deepinfra_api_key \in EnvValues
    /\ deepinfra_base_url \in EnvValues
    /\ TextStart("idle") /\ documents = <<>>
    /\ PdfStart("idle") /\ pdf_paths = <<>>

\* preprocess_documents is called on a list of documents.
InitText ==
    /\ TextStart("for_doc")
    /\ \E n \in 0..MaxDocs : documents \in [1..n -> [text : Texts]]
    /\ McqStart("idle") /\ deepinfra_api_key = None /\ deepinfra_base_url = None
    /\ PdfStart("idle") /\ pdf_paths = <<>>

\* extract_text: pdf_paths = list(self.base_path.rglob("*.pdf")); documents = []
InitPdf ==
    /\ PdfStart("for_pdf")
    /\ \E n \in 0..MaxPdfs :
          pdf_paths \in {p \in [1..n -> PdfFiles] :
                            \A i \in 1..n : p[i].bad_page <= p[i].pages}
    /\ McqStart("idle") /\ deepinfra_api_key = None /\ deepinfra_base_url = None
    /\ TextStart("idle") /\ documents = <<>>

SpecMcq == InitMcq /\ [][NextMcq]_vars
SpecText == InitText /\ [][NextText]_vars
SpecPdf == InitPdf /\ [][NextPdf]_vars

Init == InitMcq \/ InitText \/ InitPdf
Next == NextMcq \/ NextText \/ NextPdf
Spec == Init /\ [][Next]_vars

(***************************************************************************)
(* Properties                                                              *)
(***************************************************************************)
Range(seq) == {seq[i] : i \in DOMAIN seq}
Count(seq, x) == Cardinality({i \in DOMAIN seq : seq[i] = x})

\* C1: in run_experiment a failed completion request never aborts the run:
\* the only exception run_experiment ends with is one of persisting the
\* record, and a record returned after a failed base generation holds None as
\* its base MCQ.
C1_CompletionFailureNeverAborts ==
    entry = "run_experiment" =>
        /\ raised \in {NoException, "OSError"}
        /\ (pc = "done" /\ 1 \in failed) => ret.entries[1].value = None

\* C2: generate_mcq_variants called with an empty list of names returns an
\* empty dict and issues no completion request.
C2_EmptySelectionGivesNothing ==
    (/\ entry = "generate_mcq_variants"
     /\ selected_variants = List({})
     /\ pc = "done")
        => ret = Dict(<<>>) /\ calls = 0

\* C3: in every record run_experiment returns, the keys of "Evaluations" are
\* exactly the keys of "Variants" plus "Base MCQ", each once; with only
\* "Re-ordered Options" selected these are one variant key and two
\* evaluation keys.
C3_EvaluationKeysMatchVariants ==
    (entry = "run_experiment" /\ pc = "done") =>
        LET variants == ret.entries[2].value.entries
            evals == ret.entries[3].value.entries
        IN  /\ ret.entries[2].key = "Variants"
            /\ ret.entries[3].key = "Evaluations"
            /\ DictKeys(evals) = DictKeys(variants) \cup {"Base MCQ"}
            /\ "Base MCQ" \notin DictKeys(variants)
            /\ Len(variants) = Cardinality(DictKeys(variants))
            /\ Len(evals) = Cardinality(DictKeys(evals))
            /\ selected_variants = List({"Re-ordered Options"}) =>
                   /\ DictKeys(variants) = {"Re-ordered Options"}
                   /\ DictKeys(evals) = {"Base MCQ", "Re-ordered Options"}

\* C3 witness: a record is returned in which the generation of a selected
\* variant failed, so that its payload is None.
C3_Witness ==
    /\ entry = "run_experiment" /\ pc = "done"
    /\ \E i \in DOMAIN mcqa_variants : mcqa_variants[i].value = None
    /\ Len(evaluations) = Len(mcqa_variants) + 1

\* C4: evaluate_with_self_consistency issues exactly n_samples requests and
\* returns a list of n_samples entries, the i-th being the outcome of the
\* i-th request: its stripped completion, or None if it failed.
C4_SelfConsistencyInCallOrder ==
    (entry = "evaluate_with_self_consistency" /\ pc = "done") =>
        /\ calls = n_samples
        /\ ret.t = "list"
        /\ Len(ret.items) = n_samples
        /\ \A i \in 1..n_samples :
               ret.items[i] = IF i \in failed THEN None
                              ELSE Str(Strip(RawCompletion(i)))

\* C4 witness: of three samples the second request failed and the others
\* did not.
C4_Witness ==
    /\ entry = "evaluate_with_self_consistency" /\ pc = "done"
    /\ n_samples = 3 /\ failed = {2}
    /\ ret.items[2] = None /\ ret.items[1] # None /\ ret.items[3] # None

\* C5: clean_text is idempotent: a second run of preprocess_documents, on
\* the documents the first run cleaned, changes no document.
C5_CleanTextIdempotent ==
    (tp_pc = "returned" /\ tp_pass = 2) => documents = tp_prev

\* The number of lines of s that start, in any casing, with the marker.
AnswerLineCount(s) ==
    Cardinality({i \in DOMAIN SplitLines(s) : IsAnswerLine(SplitLines(s)[i])})

\* C6: extract_question is idempotent on every str with at most one line
\* that starts with the marker.
C6_ExtractQuestionIdempotent ==
    (/\ entry = "extract_question"
     /\ first_ret # None
     /\ AnswerLineCount(arg) <= 1)
        => ret = first_ret

\* C7: reorder_options raises nothing on a str and returns exactly the lines
\* of its input that begin with a), b), c) or d), each as often as it
\* occurs, in some order; an input without such a line gives the empty str.
C7_ReorderKeepsExactlyOptionLines ==
    (entry = "reorder_options" /\ pc = "done") =>
        LET lines == SplitLines(arg)
            Option(l) == /\ Len(l) >= 2
                         /\ l[1] \in {"a", "b", "c", "d"}
                         /\ l[2] = ")"
            options == SelectSeq(lines, Option)
            out == IF ret.v = <<>> THEN <<>> ELSE SplitLines(ret.v)
        IN  /\ raised = NoException
            /\ ret.t = "str"
            /\ Len(out) = Len(options)
            /\ \A l \in Range(lines) \cup Range(out) :
                   Count(out, l) = Count(options, l)

\* C7 witness: an input of a stem and four option lines, returned in an
\* order other than the input's.
C7_Witness ==
    /\ entry = "reorder_options" /\ pc = "done"
    /\ Len(SplitLines(arg)) > Len(OptionLines(arg))
    /\ Len(OptionLines(arg)) = 4
    /\ Cardinality(Range(OptionLines(arg))) = 4
    /\ ret.v # JoinLines(OptionLines(arg))

\* C8: persisting the record is all-or-nothing: after a failure of
\* save_results_to_file no output file exists, and an output file that
\* exists once the run is over holds the complete record.
C8_SaveAllOrNothing ==
    /\ raised = "OSError" => ~file.exists
    /\ (file.exists /\ pc \in {"done", "raised"}) => file.content = Results

\* C9: with the API key or the base URL missing (unset or empty), start-up
\* never gets past its checks: the client is never constructed and no
\* completion request is ever issued.
C9_MissingConfigStopsStartup ==
    (Falsy(deepinfra_api_key) \/ Falsy(deepinfra_base_url)) =>
        /\ ~openai
        /\ calls = 0
        /\ pc \in {"log_api_key", "check_api_key", "check_base_url", "raised"}

\* C9 witness: the key is set, the base URL is not, and start-up has ended
\* with the ValueError of the second check.
C9_Witness ==
    /\ pc = "raised" /\ raised = "ValueError"
    /\ ~Falsy(deepinfra_api_key)
    /\ deepinfra_base_url = None
    /\ ~openai /\ calls = 0

\* The records of the files 1..n that opened and whose pages could all be
\* read: one per page, pages ascending.
RECURSIVE ReadableRecords(_)
ReadableRecords(n) ==
    IF n = 0 THEN <<>>
    ELSE ReadableRecords(n - 1) \o
         (IF pdf_paths[n].opens /\ pdf_paths[n].bad_page = 0
          THEN [k \in 1..pdf_paths[n].pages |->
                   [file |-> n, page |-> k, text |-> <<n, k>>]]
          ELSE <<>>)

\* C10: extract_text returns the records of exactly the PDFs that could be
\* read, one per page with pages 1..n ascending; a PDF whose opening or
\* reading raised contributes no record.
C10_FailedPdfContributesNothing ==
    pdf_pc = "returned" => pdf_documents = ReadableRecords(Len(pdf_paths))

====
